---- MODULE Spec2Model ----
(***************************************************************************)
(* A model of mockredis/redis.py: the class MockRedis, an in-process       *)
(* imitation of a Redis client.  The store is the class attribute          *)
(* MockRedis.redis, a defaultdict(dict): reading self.redis[key] for a     *)
(* missing key inserts an empty dict under that key.  Every command is an  *)
(* operator from the store (and the arguments) to the store after the      *)
(* call, the value returned and the exception raised; an action applies    *)
(* one command to the store.  objects holds the attributes of the          *)
(* instances themselves, one entry for every instance constructed: the     *)
(* attribute pipe once pipeline() was called through the instance.         *)
(***************************************************************************)
EXTENDS Integers, Sequences, FiniteSets, TLC

VARIABLES redis, objects, last, written, expect

vars == <<redis, objects, last, written, expect>>

(***************************************************************************)
(* Bounds of the model.                                                    *)
(***************************************************************************)
MaxLen == 3
MaxArgs == 2

Keys == {"k1", "k2"}
Texts == {"a", "b"}
Scores == 1..2
Indices == -2..MaxLen

(***************************************************************************)
(* Python values.  A value is a record whose single field names its type,  *)
(* so values of different types are different and never confused.          *)
(***************************************************************************)
PyNone == [none |-> TRUE]
PySelf == [self |-> TRUE]
PyBool(b) == [bool |-> b]
PyInt(n) == [int |-> n]
PyStr(s) == [str |-> s]
PyDict(d) == [dict |-> d]
PyList(l) == [list |-> l]
PySet(m) == [set |-> m]

IsDict(v) == "dict" \in DOMAIN v
IsList(v) == "list" \in DOMAIN v
IsSet(v) == "set" \in DOMAIN v
IsStr(v) == "str" \in DOMAIN v

EmptyMap == [x \in {} |-> PyNone]

\* len(v) of a container
PyLen(v) ==
  IF IsDict(v) THEN Cardinality(DOMAIN v.dict)
  ELSE IF IsList(v) THEN Len(v.list)
  ELSE IF IsSet(v) THEN Cardinality(v.set)
  ELSE 0

\* `x in v` for a text x: a key of a dict, an element of a list or a set
PyIn(x, v) ==
  IF IsDict(v) THEN x \in DOMAIN v.dict
  ELSE IF IsList(v) THEN \E i \in 1..Len(v.list) : v.list[i] = PyStr(x)
  ELSE IF IsSet(v) THEN PyStr(x) \in v.set
  ELSE FALSE

\* What is written under a key: every text and score under the first key,
\* one text under the second, which takes the generic and the set
\* commands.
TextsAt(key) == IF key = "k1" THEN {PyStr(t) : t \in Texts} ELSE {PyStr("a")}
ScoresAt(key) == IF key = "k1" THEN {PyInt(n) : n \in Scores} ELSE {PyInt(1)}
MaxLenAt(key) == IF key = "k1" THEN MaxLen ELSE 1

\* the keys the hash, the list and the sorted set commands are called on, and the
\* ends of the ranges lrange is called with
DeepKeys == {"k1"}
Starts == -1..1
Stops == {-1, 0, MaxLen - 1, MaxLen}

\* the mappings from some texts of T to values of V (a Python dict argument)
Mappings(T, V) == UNION {[D -> V] : D \in SUBSET {t.str : t \in T}}

\* the arguments of the calls of zadd: pairs alone, one legacy argument
\* without the other, and both legacy arguments with at most one pair
ZAddCalls(texts, scores) ==
  LET few == {m \in Mappings(texts, scores) : Cardinality(DOMAIN m) <= 1}
  IN  [value : {PyNone}, score : {PyNone}, pairs : Mappings(texts, scores)]
      \cup [value : {PyStr("a")}, score : {PyNone}, pairs : {m \in few : "b" \notin DOMAIN m}]
      \cup [value : {PyNone}, score : {PyInt(1)}, pairs : {m \in few : "b" \notin DOMAIN m}]
      \cup [value : texts, score : scores, pairs : {m \in few : DOMAIN m = {}}]
      \cup [value : {PyStr("a")}, score : {PyInt(1)},
             pairs : {m \in few : DOMAIN m # {} /\ \A a \in DOMAIN m : m[a] = PyInt(2)}]

\* the argument tuples of at most MaxArgs texts
ArgLists(texts) == UNION {[1..n -> texts] : n \in 0..MaxArgs}

(***************************************************************************)
(* The store.                                                              *)
(***************************************************************************)
\* cls.redis = defaultdict(dict)
reset == EmptyMap

\* self.redis[key] = v
setitem(r, key, v) == [k \in DOMAIN r \cup {key} |-> IF k = key THEN v ELSE r[k]]

\* del self.redis[key]
delitem(r, key) == [k \in DOMAIN r \ {key} |-> r[k]]

\* the store after evaluating self.redis[key]: a missing key gets an empty dict
getitem(r, key) == IF key \in DOMAIN r THEN r ELSE setitem(r, key, PyDict(EmptyMap))

\* the outcome of a command: the store, the value returned, the exception
Out(r, ret, err) == [redis |-> r, ret |-> ret, err |-> err]
Ok(r, ret) == Out(r, ret, "none")
Raise(r, err) == Out(r, PyNone, err)

(***************************************************************************)
(* Generic, string and hash commands.                                      *)
(***************************************************************************)
type(r, key) ==
  LET r1 == getitem(r, key)
      v == r1[key]
  IN  IF IsDict(v) THEN Ok(r1, PyStr("hash"))
      ELSE IF IsStr(v) THEN Ok(r1, PyStr("string"))
      ELSE IF IsSet(v) THEN Ok(r1, PyStr("set"))
      ELSE IF IsList(v) THEN Ok(r1, PyStr("list"))
      ELSE Ok(r1, PyNone)

get(r, key) == Ok(r, IF key \notin DOMAIN r THEN PyStr("") ELSE r[key])

\* delete that empties the store
delete_clears(r, key) == Ok(IF key \in DOMAIN r THEN EmptyMap ELSE r, PyNone)

delete(r, key) == Ok(IF key \in DOMAIN r THEN delitem(r, key) ELSE r, PyNone)

exists(r, key) == Ok(r, PyBool(key \in DOMAIN r))

flushdb(r) == Ok(EmptyMap, PyNone)

hget(r, hashkey, attribute) ==
  LET r1 == getitem(r, hashkey)
      v == r1[hashkey]
  IN  IF PyIn(attribute, v)
      THEN IF IsDict(v) THEN Ok(r1, v.dict[attribute]) ELSE Raise(r1, "TypeError")
      ELSE Ok(r1, PyStr(""))

hgetall(r, hashkey) == LET r1 == getitem(r, hashkey) IN Ok(r1, r1[hashkey])

hlen(r, hashkey) == LET r1 == getitem(r, hashkey) IN Ok(r1, PyInt(PyLen(r1[hashkey])))

\* d[attribute] = value on a dict d
dictset(d, attribute, value) ==
  [a \in DOMAIN d \cup {attribute} |-> IF a = attribute THEN value ELSE d[a]]

\* d.update(m): every item of m is stored in d
dictupdate(d, m) == [a \in DOMAIN d \cup DOMAIN m |-> IF a \in DOMAIN m THEN m[a] ELSE d[a]]

\* for k, v in value.items(): self.redis[hashkey][k] = v.  A list or a set
\* rejects the first item assignment, so nothing is stored before the error.
hmset(r, hashkey, value) ==
  IF DOMAIN value = {} THEN Ok(r, PyNone)
  ELSE LET r1 == getitem(r, hashkey)
           v == r1[hashkey]
       IN  IF IsDict(v)
           THEN Ok(setitem(r1, hashkey, PyDict(dictupdate(v.dict, value))), PyNone)
           ELSE Raise(r1, "TypeError")

\* hset that keeps the value of an attribute that is already set
hset_keeps_old(r, hashkey, attribute, value) ==
  LET r1 == getitem(r, hashkey)
      v == r1[hashkey]
  IN  IF IsDict(v)
      THEN IF attribute \in DOMAIN v.dict THEN Ok(r1, PyNone)
           ELSE Ok(setitem(r1, hashkey, PyDict(dictset(v.dict, attribute, value))), PyNone)
      ELSE Raise(r1, "TypeError")

hset(r, hashkey, attribute, value) ==
  LET r1 == getitem(r, hashkey)
      v == r1[hashkey]
  IN  IF IsDict(v)
      THEN Ok(setitem(r1, hashkey, PyDict(dictset(v.dict, attribute, value))), PyNone)
      ELSE Raise(r1, "TypeError")

(***************************************************************************)
(* List commands.                                                          *)
(***************************************************************************)
\* a slice bound i of a sequence of n elements, as Python normalises it
bound(i, n) ==
  LET j == IF i < 0 THEN i + n ELSE i
  IN  IF j < 0 THEN 0 ELSE IF j > n THEN n ELSE j

\* l[lo:hi]
slice(l, lo, hi) ==
  LET n == Len(l)
      from == bound(lo, n)
      to == bound(hi, n)
  IN  IF from < to THEN SubSeq(l, from + 1, to) ELSE <<>>

\* lrange whose slice ends before stop
lrange_exclusive(r, key, start, stop) ==
  IF key \in DOMAIN r
  THEN IF IsList(r[key]) THEN Ok(r, PyList(slice(r[key].list, start, stop)))
       ELSE Raise(r, "TypeError")
  ELSE Ok(setitem(r, key, PyList(<<>>)), PyNone)

lrange(r, key, start, stop) ==
  IF key \in DOMAIN r
  THEN IF IsList(r[key]) THEN Ok(r, PyList(slice(r[key].list, start, stop + 1)))
       ELSE Raise(r, "TypeError")
  ELSE Ok(setitem(r, key, PyList(<<>>)), PyNone)

rpush(r, key, args) ==
  LET r1 == IF key \notin DOMAIN r THEN setitem(r, key, PyList(<<>>)) ELSE r
      v == r1[key]
  IN  IF Len(args) = 0 THEN Ok(r1, PyNone)
      ELSE IF IsList(v) THEN Ok(setitem(r1, key, PyList(v.list \o args)), PyNone)
      ELSE Raise(r1, "AttributeError")

\* rpop that takes the head of a list
rpop_head(r, key, popped) ==
  IF key \in DOMAIN r
  THEN LET v == r[key]
       IN  IF IsList(v)
           THEN IF Len(v.list) = 0 THEN Raise(r, "IndexError")
                ELSE LET rest == SubSeq(v.list, 2, Len(v.list))
                         r1 == setitem(r, key, PyList(rest))
                     IN  Ok(IF rest = <<>> THEN delete(r1, key).redis ELSE r1, v.list[1])
           ELSE IF IsSet(v)
           THEN IF v.set = {} THEN Raise(r, "KeyError")
                ELSE Ok(setitem(r, key, PySet(v.set \ {popped})), popped)
           ELSE Raise(r, "TypeError")
  ELSE Ok(r, PyNone)

\* pop() of a set removes and returns an arbitrary member: popped is that member
rpop(r, key, popped) ==
  IF key \in DOMAIN r
  THEN LET v == r[key]
       IN  IF IsList(v)
           THEN IF Len(v.list) = 0 THEN Raise(r, "IndexError")
                ELSE LET rest == SubSeq(v.list, 1, Len(v.list) - 1)
                         r1 == setitem(r, key, PyList(rest))
                     IN  Ok(IF rest = <<>> THEN delete(r1, key).redis ELSE r1,
                            v.list[Len(v.list)])
           ELSE IF IsSet(v)
           THEN IF v.set = {} THEN Raise(r, "KeyError")
                ELSE Ok(setitem(r, key, PySet(v.set \ {popped})), popped)
           ELSE Raise(r, "TypeError")
  ELSE Ok(r, PyNone)

(***************************************************************************)
(* Set commands.                                                           *)
(***************************************************************************)
\* sadd that replaces the set by a set of the one value
sadd_replaces(r, key, value) ==
  IF key \in DOMAIN r
  THEN IF IsSet(r[key]) THEN Ok(setitem(r, key, PySet({value})), PyNone)
       ELSE Raise(r, "AttributeError")
  ELSE Ok(setitem(r, key, PySet({value})), PyNone)

sadd(r, key, value) ==
  IF key \in DOMAIN r
  THEN IF IsSet(r[key]) THEN Ok(setitem(r, key, PySet(r[key].set \cup {value})), PyNone)
       ELSE Raise(r, "AttributeError")
  ELSE Ok(setitem(r, key, PySet({value})), PyNone)

srem(r, key, member) ==
  LET r1 == getitem(r, key)
      v == r1[key]
  IN  IF IsSet(v) THEN Ok(setitem(r1, key, PySet(v.set \ {member})), PySelf)
      ELSE Raise(r1, "AttributeError")

\* the values a loop over the container v can yield first
firstitems(v) ==
  IF IsDict(v) THEN {PyStr(a) : a \in DOMAIN v.dict}
  ELSE IF IsList(v) THEN (IF Len(v.list) = 0 THEN {} ELSE {v.list[1]})
  ELSE IF IsSet(v) THEN v.set
  ELSE {}

\* rand_index is the value of random.randint(0, length - 1) and first the
\* item the loop yields first; i stays 0, so the loop returns at its first
\* item or not at all
srandmember(r, key, rand_index, first) ==
  LET r1 == getitem(r, key)
      length == PyLen(r1[key])
  IN  IF length = 0 THEN Raise(r1, "ValueError")
      ELSE IF 0 = rand_index THEN Ok(r1, first)
      ELSE Ok(r1, PyNone)

smembers(r, key) == LET r1 == getitem(r, key) IN Ok(r1, r1[key])

(***************************************************************************)
(* Sorted-set commands.  A sorted set is stored as a dict from member to   *)
(* score.                                                                  *)
(***************************************************************************)
\* zadd that stores the pairs before it looks at the legacy arguments
zadd_checks_late(r, name, value, score, pairs) ==
  LET legacy == IF value # PyNone /\ score # PyNone
                THEN dictset(EmptyMap, value.str, score) ELSE EmptyMap
      all_pairs == dictupdate(legacy, pairs)
      r1 == IF DOMAIN all_pairs = {} THEN r ELSE getitem(r, name)
      wrong == (value # PyNone \/ score # PyNone) /\ (value = PyNone \/ score = PyNone)
  IN  IF DOMAIN all_pairs = {} THEN (IF wrong THEN Raise(r, "RedisError") ELSE Ok(r, PyNone))
      ELSE IF IsDict(r1[name])
      THEN LET r2 == setitem(r1, name, PyDict(dictupdate(r1[name].dict, all_pairs)))
           IN  IF wrong THEN Raise(r2, "RedisError") ELSE Ok(r2, PyNone)
      ELSE Raise(r1, "TypeError")

\* zadd(name, value, score, **pairs): value and score are PyNone when not given
zadd(r, name, value, score, pairs) ==
  IF (value # PyNone \/ score # PyNone) /\ (value = PyNone \/ score = PyNone)
  THEN Raise(r, "RedisError")
  ELSE LET legacy == IF value # PyNone THEN dictset(EmptyMap, value.str, score) ELSE EmptyMap
           all_pairs == dictupdate(legacy, pairs)
       IN  IF DOMAIN all_pairs = {} THEN Ok(r, PyNone)
           ELSE LET r1 == getitem(r, name)
                    v == r1[name]
                IN  IF IsDict(v)
                    THEN Ok(setitem(r1, name, PyDict(dictupdate(v.dict, all_pairs))), PyNone)
                    ELSE Raise(r1, "TypeError")

\* zscore that returns empty text for a member that is not there
zscore_default(r, name, value) ==
  LET r1 == getitem(r, name)
      v == r1[name]
  IN  IF IsDict(v)
      THEN IF value \in DOMAIN v.dict THEN Ok(r1, v.dict[value]) ELSE Ok(r1, PyStr(""))
      ELSE Raise(r1, "TypeError")

zscore(r, name, value) ==
  LET r1 == getitem(r, name)
      v == r1[name]
  IN  IF IsDict(v)
      THEN IF value \in DOMAIN v.dict THEN Ok(r1, v.dict[value]) ELSE Raise(r1, "KeyError")
      ELSE Raise(r1, "TypeError")

\* the position of a text in the order of texts
TextRank(s) == IF s = "" THEN 0 ELSE IF s = "a" THEN 1 ELSE IF s = "b" THEN 2 ELSE 3

\* x < y as Python 2 orders dict values: numbers by value, texts by their
\* characters, and every number before every text
PyLess(x, y) ==
  IF "int" \in DOMAIN x
  THEN IF "int" \in DOMAIN y THEN x.int < y.int ELSE TRUE
  ELSE IF "int" \in DOMAIN y THEN FALSE ELSE TextRank(x.str) < TextRank(y.str)

\* the sequences that list every element of the set S once
RECURSIVE Orders(_)
Orders(S) ==
  IF S = {} THEN {<<>>}
  ELSE UNION {{<<x>> \o o : o \in Orders(S \ {x})} : x \in S}

\* one more item put into a sequence sorted in descending order of score,
\* behind the items that are not smaller (the sort is stable)
insert_desc(sorted, item) ==
  LET before == {i \in 1..Len(sorted) : ~PyLess(sorted[i][2], item[2])}
      n == Cardinality(before)
  IN  SubSeq(sorted, 1, n) \o <<item>> \o SubSeq(sorted, n + 1, Len(sorted))

\* sorted(items, key=itemgetter(1), reverse=True)
RECURSIVE sorted_desc(_)
sorted_desc(items) ==
  IF items = <<>> THEN <<>>
  ELSE insert_desc(sorted_desc(SubSeq(items, 1, Len(items) - 1)), items[Len(items)])

\* zrevrange that takes num for the end of the slice
zrevrange_to_num(r, name, start, num, withscores, order) ==
  IF withscores THEN Raise(r, "NotImplementedError")
  ELSE LET r1 == getitem(r, name)
           v == r1[name]
       IN  IF IsDict(v)
           THEN LET items == [i \in 1..Len(order) |-> <<order[i], v.dict[order[i]]>>]
                    items_descending_by_score == sorted_desc(items)
                    selected_items == slice(items_descending_by_score, start, num)
                IN  Ok(r1, PyList([i \in 1..Len(selected_items) |->
                                     PyStr(selected_items[i][1])]))
           ELSE Raise(r1, "AttributeError")

\* order is the order in which the dict yields its keys
zrevrange(r, name, start, num, withscores, order) ==
  IF withscores THEN Raise(r, "NotImplementedError")
  ELSE LET r1 == getitem(r, name)
           v == r1[name]
       IN  IF IsDict(v)
           THEN LET items == [i \in 1..Len(order) |-> <<order[i], v.dict[order[i]]>>]
                    items_descending_by_score == sorted_desc(items)
                    selected_items == slice(items_descending_by_score, start, start + num)
                IN  Ok(r1, PyList([i \in 1..Len(selected_items) |->
                                     PyStr(selected_items[i][1])]))
           ELSE Raise(r1, "AttributeError")

zcard(r, name) == LET r1 == getitem(r, name) IN Ok(r1, PyInt(PyLen(r1[name])))

(***************************************************************************)
(* What the commands applied to a key say the key holds.  expect[k] is the *)
(* abstract value built by the commands of one kind applied to k since k   *)
(* was last absent: a hash built by hset/hmset, a list built by rpush and  *)
(* rpop, a set built by sadd and srem, a sorted set built by zadd.  It is  *)
(* Untracked for a key that is absent, or that commands of several kinds   *)
(* were applied to.  written is the set of keys a write command was ever   *)
(* applied to.                                                             *)
(***************************************************************************)
Untracked == [untracked |-> TRUE]
AHash(f) == [hash |-> f]
AList(l) == [list |-> l]
ASet(m) == [set |-> m]
AZSet(f) == [zset |-> f]

IsAHash(e) == "hash" \in DOMAIN e
IsAList(e) == "list" \in DOMAIN e
IsASet(e) == "set" \in DOMAIN e
IsAZSet(e) == "zset" \in DOMAIN e

\* the mapping f with the entries of g put over it
Override(f, g) == [a \in DOMAIN f \cup DOMAIN g |-> IF a \in DOMAIN g THEN g[a] ELSE f[a]]

Single(a, v) == [x \in {a} |-> v]

ExpectHash(k, m) ==
  IF DOMAIN m = {} THEN expect[k]
  ELSE IF k \notin DOMAIN redis THEN AHash(m)
  ELSE IF IsAHash(expect[k]) THEN AHash(Override(expect[k].hash, m))
  ELSE Untracked

ExpectZSet(k, m) ==
  IF DOMAIN m = {} THEN expect[k]
  ELSE IF k \notin DOMAIN redis THEN AZSet(m)
  ELSE IF IsAZSet(expect[k]) THEN AZSet(Override(expect[k].zset, m))
  ELSE Untracked

ExpectPush(k, args) ==
  IF Len(args) = 0 THEN expect[k]
  ELSE IF k \notin DOMAIN redis THEN AList(args)
  ELSE IF IsAList(expect[k]) THEN AList(expect[k].list \o args)
  ELSE Untracked

ExpectPop(k) ==
  IF IsAList(expect[k]) /\ Len(expect[k].list) > 1
  THEN AList(SubSeq(expect[k].list, 1, Len(expect[k].list) - 1))
  ELSE Untracked

ExpectAdd(k, value) ==
  IF k \notin DOMAIN redis THEN ASet({value})
  ELSE IF IsASet(expect[k]) THEN ASet(expect[k].set \cup {value})
  ELSE Untracked

ExpectRem(k, member) ==
  IF IsASet(expect[k]) /\ expect[k].set \ {member} # {}
  THEN ASet(expect[k].set \ {member})
  ELSE Untracked

(***************************************************************************)
(* The state machine.                                                      *)
(***************************************************************************)
Called(op, key, o) == [op |-> op, key |-> key, ret |-> o.ret, err |-> o.err]

\* a read command on key: the expectation of the key stays
Read(op, key, o) ==
  /\ redis' = o.redis
  /\ last' = Called(op, key, o)
  /\ UNCHANGED <<objects, written, expect>>

\* a write command on key, after which the key is expected to hold e
Write(op, key, o, e) ==
  /\ redis' = o.redis
  /\ last' = Called(op, key, o)
  /\ written' = written \cup {key}
  /\ expect' = [expect EXCEPT ![key] = e]
  /\ UNCHANGED objects

\* a removal command on key, after which the key is expected to hold e
Remove(op, key, o, e) ==
  /\ redis' = o.redis
  /\ last' = Called(op, key, o)
  /\ expect' = [expect EXCEPT ![key] = e]
  /\ UNCHANGED <<objects, written>>

\* self.redis: the attribute of the instance i when it has one of that
\* name, the attribute of the class otherwise
self_redis(objs, cls, i) ==
  IF "redis" \in DOMAIN objs[i] THEN objs[i]["redis"] ELSE cls

\* the instances and the class after a command through the instance i has
\* changed the store it found as self.redis into r
mutate(objs, cls, i, r) ==
  IF "redis" \in DOMAIN objs[i]
  THEN [objects |-> [objs EXCEPT ![i] = dictset(objs[i], "redis", r)], redis |-> cls]
  ELSE [objects |-> objs, redis |-> r]

\* A reference to a store, as a pipeline keeps one: the object that the
\* class attribute names, the object that the attribute redis of the
\* instance i names, or an object that the class attribute named before
\* it was rebound.  No command of MockRedis reads or changes an object of
\* the last sort, so that its identity is all that is kept of it: it is
\* named after the first of the instances whose pipeline keeps it.  An
\* instance keeps the pipeline it has, and a pipeline made later is made
\* on a later store, so that the name belongs to one object for good and
\* no two objects share a name.
ClassStore == [named |-> 0]
OwnStore(i) == [named |-> i]
OldStore(n) == [unnamed |-> n]

\* the instance number i, as the value of an expression
PyInstance(i) == [instance |-> i]

\* the reference self.redis evaluates to in a method of the instance i
self_redis_ref(objs, i) ==
  IF "redis" \in DOMAIN objs[i] THEN OwnStore(i) ELSE ClassStore

\* MockRedisPipeline(store) of mockredis/pipeline.py: the object keeps the
\* store it is given
MockRedisPipeline(store) == [pipeline |-> store]

\* self.pipe: the attribute of the instance i when it has one of that
\* name, the attribute of the class, which stays None, otherwise
self_pipe(objs, i) ==
  IF "pipe" \in DOMAIN objs[i] THEN objs[i]["pipe"] ELSE PyNone

\* pipeline() through the instance i: the first call stores a pipeline on
\* the store in the attribute pipe of the instance, every call returns the
\* pipeline of the instance; the store is not touched
pipeline(objs, cls, i) ==
  IF self_pipe(objs, i) = PyNone
  THEN LET p == MockRedisPipeline(self_redis_ref(objs, i))
       IN  [objects |-> [objs EXCEPT ![i] = dictset(objs[i], "pipe", p)],
            redis |-> cls, ret |-> p, err |-> "none"]
  ELSE [objects |-> objs, redis |-> cls, ret |-> self_pipe(objs, i), err |-> "none"]

\* the instances whose pipeline keeps the object the class attribute names
holders(objs) ==
  {i \in DOMAIN objs : self_pipe(objs, i) = MockRedisPipeline(ClassStore)}

\* the attributes of an instance after cls.redis is rebound: a pipeline
\* that kept the store of the class keeps the old object, named n
rebound_attrs(attrs, n) ==
  [a \in DOMAIN attrs |->
     IF a = "pipe" /\ attrs[a] = MockRedisPipeline(ClassStore)
     THEN MockRedisPipeline(OldStore(n))
     ELSE attrs[a]]

\* the instances after cls.redis is rebound
rebound(objs) ==
  LET h == holders(objs)
      n == CHOOSE i \in h : \A j \in h : i <= j
  IN  [i \in DOMAIN objs |-> IF i \in h THEN rebound_attrs(objs[i], n) ELSE objs[i]]

\* a constructor that gives the new instance a store of its own
MockRedis_own(objs, cls) ==
  [objects |-> Append(objs, dictset(EmptyMap, "redis", reset)), redis |-> cls,
   ret |-> PyInstance(Len(objs) + 1), err |-> "none"]

\* MockRedis.reset(), through the class or through any instance: the class
\* attribute is rebound to a new empty store; the instances stay, and a
\* pipeline that kept the store of the class keeps the old object
MockRedis_reset(objs, cls) == [objects |-> rebound(objs), redis |-> reset]

\* MockRedis(): __init__ calls the class method reset; the new instance
\* has no attribute of its own, the instances there were stay; the value
\* of the call is the new instance
MockRedis(objs, cls) ==
  [objects |-> Append(MockRedis_reset(objs, cls).objects, EmptyMap),
   redis |-> MockRedis_reset(objs, cls).redis,
   ret |-> PyInstance(Len(objs) + 1), err |-> "none"]

\* mock_redis_client(): return MockRedis()
mock_redis_client(objs, cls) == MockRedis(objs, cls)

Init ==
  /\ redis = MockRedis(<<>>, reset).redis
  /\ objects = MockRedis(<<>>, reset).objects
  /\ last = Called("MockRedis", "", MockRedis(<<>>, reset))
  /\ written = {}
  /\ expect = [k \in Keys |-> Untracked]

\* reset() alone
Call_reset ==
  /\ redis' = MockRedis_reset(objects, redis).redis
  /\ objects' = MockRedis_reset(objects, redis).objects
  /\ last' = Called("reset", "", Ok(reset, PyNone))
  /\ expect' = [k \in Keys |-> Untracked]
  /\ UNCHANGED written

\* pipeline() through the instance
Call_pipeline ==
  LET o == pipeline(objects, redis, 1)
  IN  /\ redis' = o.redis
      /\ objects' = o.objects
      /\ last' = Called("pipeline", "", o)
      /\ UNCHANGED <<written, expect>>

Call_type == \E key \in Keys : Read("type", key, type(redis, key))

Call_get == \E key \in Keys : Read("get", key, get(redis, key))

Call_exists == \E key \in Keys : Read("exists", key, exists(redis, key))

Call_delete == \E key \in Keys : Remove("delete", key, delete(redis, key), Untracked)

Call_flushdb ==
  /\ redis' = flushdb(redis).redis
  /\ last' = Called("flushdb", "", flushdb(redis))
  /\ expect' = [k \in Keys |-> Untracked]
  /\ UNCHANGED <<objects, written>>

Call_hget ==
  \E key \in DeepKeys, attribute \in Texts : Read("hget", key, hget(redis, key, attribute))

Call_hgetall == \E key \in DeepKeys : Read("hgetall", key, hgetall(redis, key))

Call_hlen == \E key \in DeepKeys : Read("hlen", key, hlen(redis, key))

Call_hmset ==
  \E key \in DeepKeys : \E value \in Mappings(TextsAt(key), TextsAt(key)) :
    Write("hmset", key, hmset(redis, key, value), ExpectHash(key, value))

Call_hset ==
  \E key \in DeepKeys : \E attribute \in TextsAt(key), value \in TextsAt(key) :
    Write("hset", key, hset(redis, key, attribute.str, value),
          ExpectHash(key, Single(attribute.str, value)))

Call_lrange ==
  \E key \in DeepKeys, start \in Starts, stop \in Stops :
    Read("lrange", key, lrange(redis, key, start, stop))

\* rpush(key, *args) with at least min arguments
Push(min) ==
  \E key \in DeepKeys : \E args \in ArgLists(TextsAt(key)) :
    /\ Len(args) >= min
    /\ Len(args) + (IF key \in DOMAIN redis /\ IsList(redis[key])
                    THEN Len(redis[key].list) ELSE 0) <= MaxLenAt(key)
    /\ Write("rpush", key, rpush(redis, key, args), ExpectPush(key, args))

Call_rpush == Push(0)

Call_rpop ==
  \E key \in DeepKeys :
    \E popped \in IF key \in DOMAIN redis /\ IsSet(redis[key]) /\ redis[key].set # {}
                  THEN redis[key].set ELSE {PyNone} :
      Remove("rpop", key, rpop(redis, key, popped), ExpectPop(key))

Call_sadd ==
  \E key \in Keys : \E value \in TextsAt(key) :
    Write("sadd", key, sadd(redis, key, value), ExpectAdd(key, value))

Call_srem ==
  \E key \in Keys, member \in {PyStr(t) : t \in Texts} :
    Remove("srem", key, srem(redis, key, member), ExpectRem(key, member))

Call_srandmember ==
  \E key \in Keys :
    LET v == getitem(redis, key)[key]
    IN  \E rand_index \in 0..(IF PyLen(v) = 0 THEN 0 ELSE PyLen(v) - 1) :
          \E first \in IF PyLen(v) = 0 THEN {PyNone} ELSE firstitems(v) :
            Read("srandmember", key, srandmember(redis, key, rand_index, first))

Call_smembers == \E key \in Keys : Read("smembers", key, smembers(redis, key))

Call_zadd ==
  \E name \in DeepKeys :
    \E call \in ZAddCalls(TextsAt(name), ScoresAt(name)) :
      LET o == zadd(redis, name, call.value, call.score, call.pairs)
          given == IF call.value = PyNone THEN call.pairs
                   ELSE Override(Single(call.value.str, call.score), call.pairs)
      IN  Write("zadd", name, o,
                IF o.err = "RedisError" THEN expect[name] ELSE ExpectZSet(name, given))

Call_zscore ==
  \E name \in DeepKeys, value \in Texts : Read("zscore", name, zscore(redis, name, value))

Call_zrevrange ==
  \E name \in DeepKeys, start \in -1..1, num \in -1..1, withscores \in BOOLEAN :
    /\ withscores => (start = 0 /\ num = 0)
    /\ LET v == getitem(redis, name)[name]
       IN  \E order \in IF IsDict(v) THEN Orders(DOMAIN v.dict) ELSE {<<>>} :
             Read("zrevrange", name, zrevrange(redis, name, start, num, withscores, order))

Call_zcard == \E name \in DeepKeys : Read("zcard", name, zcard(redis, name))

\* The commands of one instance; the constructor is called once more in
\* NextInst, where the instances there were are kept.
Next ==
  \/ Call_reset
  \/ Call_pipeline
  \/ Call_type
  \/ Call_get
  \/ Call_exists
  \/ Call_delete
  \/ Call_flushdb
  \/ Call_hget
  \/ Call_hgetall
  \/ Call_hlen
  \/ Call_hmset
  \/ Call_hset
  \/ Call_lrange
  \/ Call_rpush
  \/ Call_rpop
  \/ Call_sadd
  \/ Call_srem
  \/ Call_srandmember
  \/ Call_smembers
  \/ Call_zadd
  \/ Call_zscore
  \/ Call_zrevrange
  \/ Call_zcard

Spec == Init /\ [][Next]_vars

\* The write and removal commands alone, rpush with at least one value.
Call_rpush_values == Push(1)

NextWR ==
  \/ Call_hset
  \/ Call_hmset
  \/ Call_rpush_values
  \/ Call_sadd
  \/ Call_zadd
  \/ Call_rpop
  \/ Call_srem
  \/ Call_delete
  \/ Call_flushdb

SpecWR == Init /\ [][NextWR]_vars

\* The sorted-set commands on sorted sets of up to three members.
MaxScore == 3
ZTexts == {PyStr("a"), PyStr("b"), PyStr("c")}
ZScores == {PyInt(n) : n \in 1..MaxScore}

Z_zadd ==
  \E pairs \in Mappings(ZTexts, ZScores) :
    Write("zadd", "k1", zadd(redis, "k1", PyNone, PyNone, pairs), ExpectZSet("k1", pairs))

Z_zrevrange ==
  \E start \in -1..2, num \in -1..3 :
    LET v == getitem(redis, "k1")["k1"]
    IN  \E order \in Orders(DOMAIN v.dict) :
          Read("zrevrange", "k1", zrevrange(redis, "k1", start, num, FALSE, order))

NextZ ==
  \/ Z_zadd
  \/ Z_zrevrange
  \/ Call_zcard
  \/ Call_zscore
  \/ Call_delete

SpecZ == Init /\ [][NextZ]_vars

(***************************************************************************)
(* keys(pattern).  Here a key and a pattern are sequences of characters.   *)
(***************************************************************************)
MaxPat == 2
KeyTexts == {<<"a">>, <<"b">>, <<"a", "b">>, <<"a", "b", "c">>}
PatternChars == {"a", "b", "*", "."}
Patterns == UNION {[1..n -> PatternChars] : n \in 0..MaxPat}

\* pattern.replace('*', '.*')
RECURSIVE replace(_)
replace(pattern) ==
  IF pattern = <<>> THEN <<>>
  ELSE (IF Head(pattern) = "*" THEN <<".", "*">> ELSE <<Head(pattern)>>)
         \o replace(Tail(pattern))

\* one character of the text against one atom of the regular expression
re_atom(c, x) == c = "." \/ c = x

\* the regular expression re (atoms, atom*, a closing $) matches at the
\* head of the text
RECURSIVE re_here(_, _)
re_here(re, text) ==
  IF re = <<>> THEN TRUE
  ELSE IF re = <<"$">> THEN text = <<>>
  ELSE IF Len(re) >= 2 /\ re[2] = "*"
  THEN \/ re_here(Tail(Tail(re)), text)
       \/ text # <<>> /\ re_atom(re[1], text[1]) /\ re_here(re, Tail(text))
  ELSE text # <<>> /\ re_atom(re[1], text[1]) /\ re_here(Tail(re), Tail(text))

\* re.match(regex, key) for a regex that opens with ^
re_match(regex, key) == regex[1] = "^" /\ re_here(Tail(regex), key)

\* order is the order in which self.redis.keys() lists the keys
keys(r, pattern, order) ==
  LET regex == <<"^">> \o replace(pattern) \o <<"$">>
  IN  Ok(r, PyList(SelectSeq([i \in 1..Len(order) |-> PyStr(order[i])],
                             LAMBDA key : re_match(regex, key.str))))

K_hset ==
  \E key \in KeyTexts :
    /\ redis' = hset(redis, key, "a", PyStr("a")).redis
    /\ last' = Called("hset", key, hset(redis, key, "a", PyStr("a")))
    /\ UNCHANGED <<objects, written, expect>>

K_delete ==
  \E key \in KeyTexts :
    /\ redis' = delete(redis, key).redis
    /\ last' = Called("delete", key, delete(redis, key))
    /\ UNCHANGED <<objects, written, expect>>

Call_keys ==
  \E pattern \in Patterns, order \in Orders(DOMAIN redis) :
    /\ redis' = keys(redis, pattern, order).redis
    /\ last' = Called("keys", pattern, keys(redis, pattern, order))
    /\ UNCHANGED <<objects, written, expect>>

NextKeys ==
  \/ K_hset
  \/ K_delete
  \/ Call_keys

SpecKeys == Init /\ [][NextKeys]_vars

(***************************************************************************)
(* Several instances: every command is called through one of them.         *)
(***************************************************************************)
MaxInstances == 2

Instances == 1..Len(objects)

\* a command through the instance i whose outcome on self.redis is o
Through(i, op, key, o) ==
  /\ redis' = mutate(objects, redis, i, o.redis).redis
  /\ objects' = mutate(objects, redis, i, o.redis).objects
  /\ last' = Called(op, key, o)

I_new ==
  /\ Len(objects) < MaxInstances
  /\ redis' = MockRedis(objects, redis).redis
  /\ objects' = MockRedis(objects, redis).objects
  /\ last' = Called("MockRedis", "", MockRedis(objects, redis))
  /\ expect' = [k \in Keys |-> Untracked]
  /\ UNCHANGED written

I_mock_redis_client ==
  /\ Len(objects) < MaxInstances
  /\ redis' = mock_redis_client(objects, redis).redis
  /\ objects' = mock_redis_client(objects, redis).objects
  /\ last' = Called("mock_redis_client", "", mock_redis_client(objects, redis))
  /\ expect' = [k \in Keys |-> Untracked]
  /\ UNCHANGED written

I_sadd ==
  \E i \in Instances, key \in Keys :
    \E value \in TextsAt(key) :
      /\ Through(i, "sadd", key, sadd(self_redis(objects, redis, i), key, value))
      /\ written' = written \cup {key}
      /\ expect' = [expect EXCEPT ![key] = ExpectAdd(key, value)]

I_hset ==
  \E i \in Instances, key \in Keys :
    \E attribute \in TextsAt(key), value \in TextsAt(key) :
      /\ Through(i, "hset", key,
                 hset(self_redis(objects, redis, i), key, attribute.str, value))
      /\ written' = written \cup {key}
      /\ expect' = [expect EXCEPT ![key] = ExpectHash(key, Single(attribute.str, value))]

I_delete ==
  \E i \in Instances, key \in Keys :
    /\ Through(i, "delete", key, delete(self_redis(objects, redis, i), key))
    /\ expect' = [expect EXCEPT ![key] = Untracked]
    /\ UNCHANGED written

I_exists ==
  \E i \in Instances, key \in Keys :
    /\ Through(i, "exists", key, exists(self_redis(objects, redis, i), key))
    /\ UNCHANGED <<written, expect>>

I_smembers ==
  \E i \in Instances, key \in Keys :
    /\ Through(i, "smembers", key, smembers(self_redis(objects, redis, i), key))
    /\ UNCHANGED <<written, expect>>

I_pipeline ==
  \E i \in Instances :
    LET o == pipeline(objects, redis, i)
    IN  /\ redis' = o.redis
        /\ objects' = o.objects
        /\ last' = Called("pipeline", "", o)
        /\ UNCHANGED <<written, expect>>

NextInst ==
  \/ I_new
  \/ Call_reset
  \/ I_pipeline
  \/ I_mock_redis_client
  \/ I_sadd
  \/ I_hset
  \/ I_delete
  \/ I_exists
  \/ I_smembers

SpecInst == Init /\ [][NextInst]_vars

(***************************************************************************)
(* Properties.                                                             *)
(***************************************************************************)
AllTexts == {PyStr(t) : t \in Texts}
AllScores == {PyInt(n) : n \in Scores}

\* C1: a key no write command (hset, hmset, rpush, sadd, zadd) was ever
\* applied to reads as empty text with get and does not exist, whatever
\* read commands were applied to it before.
C1_NeverWrittenReadsEmpty ==
  \A k \in Keys :
    k \notin written =>
      /\ get(redis, k).ret = PyStr("")
      /\ exists(redis, k).ret = PyBool(FALSE)

\* C2: a command that raises an error leaves the store as it was: the same
\* keys exist and every key holds the same value.
C2_FailedCommandIsNoOp == [][last'.err # "none" => redis' = redis]_vars

\* the command is refused and the key keeps its value
Refused(o, k) == o.err # "none" /\ k \in DOMAIN o.redis /\ o.redis[k] = redis[k]

\* C3: a key holds one kind of value at a time: a write command of another
\* kind than the value the key holds fails with an error and leaves the
\* value as it was; zadd adds nothing to a hash and hset nothing to a
\* sorted set.
C3_OneKindPerKey ==
  \A k \in Keys :
    LET e == expect[k]
    IN  /\ IsAList(e) \/ IsASet(e) \/ IsAZSet(e) =>
             /\ \A a \in Texts, v \in AllTexts : Refused(hset(redis, k, a, v), k)
             /\ \A a \in Texts, v \in AllTexts : Refused(hmset(redis, k, Single(a, v)), k)
        /\ IsAHash(e) \/ IsASet(e) \/ IsAZSet(e) =>
             \A v \in AllTexts : Refused(rpush(redis, k, <<v>>), k)
        /\ IsAHash(e) \/ IsAList(e) \/ IsAZSet(e) =>
             \A v \in AllTexts : Refused(sadd(redis, k, v), k)
        /\ IsAHash(e) \/ IsAList(e) \/ IsASet(e) =>
             \A a \in Texts, n \in AllScores :
               Refused(zadd(redis, k, PyNone, PyNone, Single(a, n)), k)

\* C4: type(key) names the kind of the value the key holds (hash after
\* hset/hmset, list after rpush, set after sadd, a kind of its own after
\* zadd, none for an absent key) and leaves the store as it was.
C4_TypeReportsKind ==
  \A k \in Keys :
    LET o == type(redis, k)
        e == expect[k]
    IN  /\ IsAHash(e) => o.ret = PyStr("hash")
        /\ IsAList(e) => o.ret = PyStr("list")
        /\ IsASet(e) => o.ret = PyStr("set")
        /\ IsAZSet(e) => o.ret \notin {PyStr("hash"), PyStr("list"), PyStr("set"),
                                       PyStr("string"), PyNone}
        /\ k \notin DOMAIN redis => o.ret = PyNone
        /\ exists(o.redis, k).ret = exists(redis, k).ret

\* the fields hlen counts after the fields of D are set in the store r
CountWith(r, k, D) ==
  hlen(r, k).ret.int + Cardinality({f \in D : hget(r, k, f).ret = PyStr("")})

\* C5: after hset and hmset calls on a key that was absent, hget returns
\* the value set last for a field, empty text for a field never set, and
\* hlen counts the fields set; on a key that is absent or holds a hash,
\* hset and hmset set their fields, keep the others and make hlen count
\* the new fields.
C5_HashReadsLatest ==
  \A k \in Keys :
    /\ IsAHash(expect[k]) =>
         LET h == expect[k].hash
         IN  /\ \A f \in Texts :
                  LET o == hget(redis, k, f)
                  IN  /\ o.err = "none"
                      /\ o.ret = IF f \in DOMAIN h THEN h[f] ELSE PyStr("")
             /\ hlen(redis, k).err = "none"
             /\ hlen(redis, k).ret = PyInt(Cardinality(DOMAIN h))
    /\ k \notin DOMAIN redis \/ IsDict(redis[k]) =>
         /\ \A f \in Texts, v \in AllTexts :
              LET o == hset(redis, k, f, v)
              IN  /\ o.err = "none"
                  /\ hget(o.redis, k, f).ret = v
                  /\ \A g \in Texts \ {f} : hget(o.redis, k, g).ret = hget(redis, k, g).ret
                  /\ hlen(o.redis, k).ret = PyInt(CountWith(redis, k, {f}))
         /\ \A m \in Mappings(AllTexts, AllTexts) :
              LET o == hmset(redis, k, m)
              IN  /\ o.err = "none"
                  /\ \A f \in DOMAIN m : hget(o.redis, k, f).ret = m[f]
                  /\ \A g \in Texts \ DOMAIN m : hget(o.redis, k, g).ret = hget(redis, k, g).ret
                  /\ hlen(o.redis, k).ret = PyInt(CountWith(redis, k, DOMAIN m))

C5_Witness ==
  /\ last.op = "hset" /\ last.key = "k1"
  /\ IsAHash(expect["k1"])
  /\ DOMAIN expect["k1"].hash = {"a"}
  /\ expect["k1"].hash["a"] = PyStr("b")
  /\ hget(redis, "k1", "a").ret = PyStr("b")
  /\ hget(redis, "k1", "b").ret = PyStr("")

\* the values n successive calls of rpop(key) return, the last call first
RECURSIVE pops(_, _, _)
pops(r, key, n) ==
  IF n = 0 THEN <<>>
  ELSE LET o == rpop(r, key, PyNone) IN pops(o.redis, key, n - 1) \o <<o.ret>>

\* the store after n successive calls of rpop(key)
RECURSIVE popped_store(_, _, _)
popped_store(r, key, n) ==
  IF n = 0 THEN r ELSE popped_store(rpop(r, key, PyNone).redis, key, n - 1)

\* C6: on a list of n >= 1 elements built by rpush, rpop removes and
\* returns the element appended last and leaves the others in order;
\* successive calls return the elements in the reverse order of their
\* rpush, and the key does not exist after the last element is removed.
C6_PopReturnsTail ==
  \A k \in Keys :
    IsAList(expect[k]) =>
      LET l == expect[k].list
          n == Len(l)
          o == rpop(redis, k, PyNone)
      IN  /\ n >= 1
          /\ o.err = "none"
          /\ o.ret = l[n]
          /\ n > 1 => o.redis = setitem(redis, k, PyList(SubSeq(l, 1, n - 1)))
          /\ pops(redis, k, n) = l
          /\ exists(popped_store(redis, k, n), k).ret = PyBool(FALSE)
          /\ \A j \in Keys \ {k} :
               j \in DOMAIN redis =>
                 /\ j \in DOMAIN popped_store(redis, k, n)
                 /\ popped_store(redis, k, n)[j] = redis[j]

C6_Witness ==
  /\ last.op = "rpop" /\ last.key = "k1" /\ last.ret = PyStr("b")
  /\ expect["k1"] = AList(<<PyStr("a"), PyStr("b")>>)
  /\ redis["k1"] = PyList(<<PyStr("a"), PyStr("b")>>)

\* C7: on a list of n elements built by rpush, lrange(key, start, stop)
\* with 0 <= start <= stop returns the elements at the positions start to
\* min(stop, n - 1), in the order of the list, and leaves the list as it was.
C7_RangeIsInclusive ==
  \A k \in Keys :
    IsAList(expect[k]) =>
      LET l == expect[k].list
          n == Len(l)
      IN  \A start \in 0..(MaxLen + 1), stop \in 0..(MaxLen + 1) :
            start <= stop =>
              LET o == lrange(redis, k, start, stop)
                  to == IF stop < n - 1 THEN stop ELSE n - 1
                  m == IF to < start THEN 0 ELSE to - start + 1
              IN  /\ o.err = "none"
                  /\ o.ret = PyList([i \in 1..m |-> l[start + i]])
                  /\ o.redis = redis

C7_Witness ==
  /\ last.op = "lrange" /\ last.key = "k1"
  /\ IsAList(expect["k1"])
  /\ Len(expect["k1"].list) = 3
  /\ last.ret = PyList(SubSeq(expect["k1"].list, 2, 3))

\* C8: lrange on an absent key returns an empty sequence without an error
\* and leaves the store as it was: the key is still absent, and rpop
\* behaves afterwards as on an absent key.
C8_RangeOfAbsentKey ==
  \A k \in Keys :
    k \notin DOMAIN redis =>
      \A start \in Indices, stop \in Indices :
        LET o == lrange(redis, k, start, stop)
        IN  /\ o.err = "none"
            /\ o.ret = PyList(<<>>)
            /\ o.redis = redis
            /\ exists(o.redis, k).ret = PyBool(FALSE)
            /\ rpop(o.redis, k, PyNone) = rpop(redis, k, PyNone)

\* C9: after write and removal commands alone, every key that exists holds
\* a container that is not empty: srem of the last member of a set removes
\* the key, as rpop of the last element of a list does.
C9_NoEmptyContainer ==
  /\ \A k \in DOMAIN redis : PyLen(redis[k]) > 0
  /\ \A k \in Keys :
       IsASet(expect[k]) =>
         \A x \in AllTexts :
           expect[k].set = {x} => exists(srem(redis, k, x).redis, k).ret = PyBool(FALSE)

\* C10: after sadd calls on a key that was absent, smembers is the set of
\* the values added; sadd of a member leaves the set as it was, sadd of a
\* value twice adds it once, and sadd on a key that holds a set adds its
\* value to the members.
C10_SetOfAdded ==
  \A k \in Keys :
    /\ IsASet(expect[k]) =>
         LET m == expect[k].set
         IN  /\ smembers(redis, k) = Ok(redis, PySet(m))
             /\ \A x \in m : sadd(redis, k, x) = Ok(redis, PyNone)
             /\ \A x \in AllTexts :
                  LET twice == sadd(sadd(redis, k, x).redis, k, x)
                  IN  /\ twice.err = "none"
                      /\ smembers(twice.redis, k).ret = PySet(m \cup {x})
    /\ k \notin DOMAIN redis =>
         \A x \in AllTexts :
           smembers(sadd(sadd(redis, k, x).redis, k, x).redis, k).ret = PySet({x})
    /\ k \in DOMAIN redis /\ IsSet(redis[k]) =>
         \A x \in AllTexts :
           /\ sadd(redis, k, x).err = "none"
           /\ smembers(sadd(redis, k, x).redis, k).ret = PySet(redis[k].set \cup {x})

C10_Witness ==
  /\ last.op = "sadd" /\ last.key = "k1"
  /\ expect["k1"] = ASet({PyStr("a"), PyStr("b")})
  /\ smembers(redis, "k1").ret = PySet({PyStr("a"), PyStr("b")})

\* C11: srem never raises an error: on a set that holds the member the
\* member is removed and the other members stay; when the member is not in
\* the set, or the key is absent, nothing changes and no error is raised.
C11_RemoveNeverRaises ==
  \A k \in Keys :
    \A x \in AllTexts :
      LET o == srem(redis, k, x)
      IN  /\ k \notin DOMAIN redis => o.err = "none" /\ o.redis = redis
          /\ IsASet(expect[k]) =>
               /\ o.err = "none"
               /\ k \in DOMAIN o.redis => o.redis[k] = PySet(expect[k].set \ {x})
               /\ k \notin DOMAIN o.redis => expect[k].set \ {x} = {}
               /\ x \notin expect[k].set => o.redis = redis

\* C12: srandmember on a set that is not empty returns a member of the set,
\* whatever index the random choice gives, and leaves the set as it was.
C12_RandomMemberIsMember ==
  \A k \in Keys :
    IsASet(expect[k]) =>
      \A rand_index \in 0..(Cardinality(expect[k].set) - 1) :
        \A first \in firstitems(redis[k]) :
          LET o == srandmember(redis, k, rand_index, first)
          IN  /\ o.err = "none"
              /\ o.ret \in expect[k].set
              /\ o.redis = redis

\* C14: after zadd calls on a key that was absent, zscore returns the
\* score given last to a member; for a member never added, and for an
\* absent key, it raises the key error and returns no default.
C14_ScoreIsLatest ==
  \A k \in Keys :
    /\ IsAZSet(expect[k]) =>
         \A a \in Texts :
           LET o == zscore(redis, k, a)
               z == expect[k].zset
           IN  IF a \in DOMAIN z THEN o = Ok(redis, z[a]) ELSE o.err = "KeyError"
    /\ k \notin DOMAIN redis => \A a \in Texts : zscore(redis, k, a).err = "KeyError"

C14_Witness ==
  /\ last.op = "zscore" /\ last.key = "k1" /\ last.ret = PyInt(2)
  /\ IsAZSet(expect["k1"])
  /\ DOMAIN expect["k1"].zset = {"a", "b"}
  /\ expect["k1"].zset["a"] = PyInt(1)
  /\ expect["k1"].zset["b"] = PyInt(2)

\* C15: zadd with one of the two legacy arguments and not the other fails
\* with the usage error and leaves the store as it was: no member is
\* added, the key is not created, and the pairs of the call are not stored.
C15_HalfLegacyIsRefused ==
  \A k \in Keys :
    \A pairs \in Mappings(AllTexts, AllScores) :
      /\ \A v \in AllTexts : zadd(redis, k, v, PyNone, pairs) = Raise(redis, "RedisError")
      /\ \A n \in AllScores : zadd(redis, k, PyNone, n, pairs) = Raise(redis, "RedisError")

C15_Witness ==
  /\ last.op = "zadd" /\ last.key = "k1" /\ last.err = "RedisError"
  /\ "k1" \notin DOMAIN redis
  /\ "k1" \in written

\* C17: delete(k) makes exists(k) false whatever k held, leaves every other
\* key and its value as they were and does nothing, without an error, when
\* k is absent; flushdb makes every key absent.
C17_DeleteAndFlush ==
  /\ \A k \in Keys :
       LET o == delete(redis, k)
       IN  /\ o.err = "none"
           /\ exists(o.redis, k).ret = PyBool(FALSE)
           /\ DOMAIN o.redis = DOMAIN redis \ {k}
           /\ \A j \in DOMAIN redis \ {k} : o.redis[j] = redis[j]
           /\ k \notin DOMAIN redis => o.redis = redis
  /\ flushdb(redis).err = "none"
  /\ \A k \in Keys : exists(flushdb(redis).redis, k).ret = PyBool(FALSE)

C17_Witness ==
  /\ last.op = "delete" /\ last.key = "k1" /\ last.err = "none"
  /\ "k1" \in written
  /\ "k1" \notin DOMAIN redis
  /\ "k2" \in DOMAIN redis
  /\ redis["k2"] = PySet({PyStr("a")})
  /\ delete(redis, "k2") = Ok(reset, PyNone)

\* C18: a negative stop of lrange counts from the tail of the list, -1
\* being the last element, and the slice is still inclusive: on a list of
\* n >= 1 elements lrange(key, 0, -1) returns the n elements and
\* lrange(key, 0, -2) the first n - 1.
C18_NegativeStop ==
  \A k \in Keys :
    IsAList(expect[k]) =>
      LET l == expect[k].list
      IN  /\ lrange(redis, k, 0, -1) = Ok(redis, PyList(l))
          /\ lrange(redis, k, 0, -2) = Ok(redis, PyList(SubSeq(l, 1, Len(l) - 1)))

\* the scores of the sorted set z are distinct
DistinctScores(z) == \A a, b \in DOMAIN z : z[a] = z[b] => a = b

\* the member of z with p members of a greater score
MemberAt(z, p) ==
  CHOOSE a \in DOMAIN z : Cardinality({b \in DOMAIN z : z[b].int > z[a].int}) = p

\* C13: on a sorted set built by zadd whose members have distinct scores,
\* zrevrange(name, start, num) with start >= 0 and num >= 0 returns the
\* members at the positions start to start + num - 1 of the members in
\* descending order of score, fewer when the set is shorter, and zcard is
\* the number of members added.
C13_RangeByDescendingScore ==
  \A k \in Keys :
    IsAZSet(expect[k]) /\ DistinctScores(expect[k].zset) =>
      LET z == expect[k].zset
          n == Cardinality(DOMAIN z)
      IN  /\ zcard(redis, k) = Ok(redis, PyInt(n))
          /\ \A start \in 0..(MaxScore + 1), num \in 0..(MaxScore + 1) :
               \A order \in Orders(DOMAIN redis[k].dict) :
                 LET rest == IF n < start THEN 0 ELSE n - start
                     m == IF num < rest THEN num ELSE rest
                 IN  zrevrange(redis, k, start, num, FALSE, order)
                       = Ok(redis, PyList([i \in 1..m |-> PyStr(MemberAt(z, start + i - 1))]))

C13_Witness ==
  /\ last.op = "zrevrange" /\ last.key = "k1"
  /\ IsAZSet(expect["k1"])
  /\ DOMAIN expect["k1"].zset = {"a", "b", "c"}
  /\ expect["k1"].zset["a"] = PyInt(2)
  /\ expect["k1"].zset["b"] = PyInt(1)
  /\ expect["k1"].zset["c"] = PyInt(3)
  /\ last.ret = PyList(<<PyStr("a"), PyStr("b")>>)

\* C19: the result of zrevrange depends on the members and their scores
\* alone: whatever order the container yields its members in (the order
\* follows the history of the insertions), the list returned is the same,
\* members of equal score included.
C19_RangeIgnoresHistory ==
  \A k \in Keys :
    IsAZSet(expect[k]) =>
      \A start \in 0..2, num \in 0..3 :
        \A o1 \in Orders(DOMAIN redis[k].dict), o2 \in Orders(DOMAIN redis[k].dict) :
          zrevrange(redis, k, start, num, FALSE, o1).ret
            = zrevrange(redis, k, start, num, FALSE, o2).ret

\* the text matches the pattern when * stands for any substring and every
\* other character for itself
RECURSIVE Glob(_, _)
Glob(pattern, text) ==
  IF pattern = <<>> THEN text = <<>>
  ELSE IF Head(pattern) = "*"
  THEN Glob(Tail(pattern), text) \/ (text # <<>> /\ Glob(pattern, Tail(text)))
  ELSE text # <<>> /\ Head(pattern) = Head(text) /\ Glob(Tail(pattern), Tail(text))

\* C16: keys(pattern) returns the keys of the store whose whole text
\* matches the pattern, where * matches any substring and every other
\* character of the pattern, "." included, matches itself alone.
C16_KeysMatchGlob ==
  \A pattern \in Patterns :
    \A order \in Orders(DOMAIN redis) :
      LET o == keys(redis, pattern, order)
      IN  /\ o.err = "none"
          /\ {o.ret.list[i] : i \in 1..Len(o.ret.list)}
               = {PyStr(key) : key \in {k \in DOMAIN redis : Glob(pattern, k)}}

\* every instance of objs finds every key of the model absent
AllAbsent(c) ==
  \A j \in 1..Len(c.objects) :
    \A k \in Keys : exists(self_redis(c.objects, c.redis, j), k).ret = PyBool(FALSE)

\* C20: the instances share one store: what is written through one
\* instance is read through every other, and constructing an instance,
\* directly or with mock_redis_client, empties the store of them all.
C20_OneSharedStore ==
  /\ \A i \in Instances, j \in Instances :
       /\ self_redis(objects, redis, i) = self_redis(objects, redis, j)
       /\ \A k \in Keys, x \in AllTexts :
            LET o == sadd(self_redis(objects, redis, i), k, x)
                m == mutate(objects, redis, i, o.redis)
            IN  o.err = "none" =>
                  smembers(self_redis(m.objects, m.redis, j), k).ret = o.redis[k]
  /\ AllAbsent(MockRedis(objects, redis))
  /\ AllAbsent(mock_redis_client(objects, redis))

C20_Witness ==
  /\ last.op = "mock_redis_client" /\ last.ret = PyInstance(2)
  /\ Len(objects) = 2
  /\ written = {"k1", "k2"}
  /\ \A j \in Instances, k \in Keys :
       exists(self_redis(objects, redis, j), k).ret = PyBool(FALSE)

====
